---- MODULE Spec2Model ----
(***************************************************************************)
(* The CursorClone build managers and branding checks.                     *)
(*                                                                         *)
(*   script = "part_000"             src/unnamed/part_000                  *)
(*            the command-driven manager: sync | install | build | package *)
(*            | archive | test | validate | all | help                     *)
(*   script = "build-cursorclone.js" src/build-cursorclone.js              *)
(*            the option-driven manager: validate, sync, install, build,   *)
(*            package and, with --release, tag and push                    *)
(*                                                                         *)
(*   script = "validate-branding"    src/validate-branding-clean.cjs 1-146 *)
(*            the branding validator: product.json, package.json, README   *)
(*   script = "test-environment"     src/validate-branding-clean.cjs       *)
(*            148-267, the build-environment test with its nine checks     *)
(*                                                                         *)
(*   script = "test-build"           src/test-build-clean.cjs 1-131        *)
(*            the environment validation                                   *)
(*   script = "setup"                src/setup-cursorclone-clean.sh        *)
(*            the development environment setup                            *)
(*                                                                         *)
(* Spec runs the build managers, BrandSpec the two branding scripts and    *)
(* the validate command of part_000, EnvSpec the two environment scripts.  *)
(*                                                                         *)
(* One action is one method of CursorCloneBuildManager as run() calls it;  *)
(* every external command a method executes is recorded in cmds with its   *)
(* outcome, every line it logs in log.  The outcome of an external command *)
(* is the environment's choice.                                            *)
(***************************************************************************)
EXTENDS Integers, Sequences, FiniteSets, TLC

VARIABLES
    script,          \* which of the scripts runs
    argv,            \* process.argv.slice(2): the user's arguments
    hostPlatform,    \* process.platform
    hostArch,        \* process.arch
    isVerbose,       \* this.isVerbose
    skipSync,        \* this.skipSync
    targetPlatform,  \* this.targetPlatform
    targetArch,      \* this.targetArch
    pc,              \* "main" | "run" | "steps" | "exited"
    todo,            \* the methods run() has still to call, in order
    results,         \* one record per method run() has called, in order
    cmds,            \* one record per external command executed, in order
    log,             \* the lines written by log(), in order
    exitCode,        \* the exit code of the process (0 unless process.exit(1))
    files,           \* files and directories that exist under rootDir
    buildDirs,       \* directories that exist under rootDir/.build
    archives,        \* archives that exist under rootDir/releases
    productJson,     \* content of product.json
    head,            \* the git branch checked out: "main" or "" (detached)
    archiveRead,     \* the directories createArchive has looked for
    packageJson,     \* content of package.json
    readme,          \* content of README.md
    passed,          \* the counter passed of the build-environment test
    total,           \* the counter total of the build-environment test
    allChecks,       \* allChecks of the environment validation
    nvmrc,           \* content of .nvmrc, a sequence of characters
    tools,           \* the commands `command -v` finds
    remotes          \* the git remotes of the repository

vars == <<script, argv, hostPlatform, hostArch, isVerbose, skipSync,
          targetPlatform, targetArch, pc, todo, results, cmds, log, exitCode,
          files, buildDirs, archives, productJson, head, archiveRead,
          packageJson, readme, passed, total, allChecks, nvmrc, tools,
          remotes>>

\* what no method of a build manager assigns
config == <<script, argv, hostPlatform, hostArch, isVerbose, skipSync,
            targetPlatform, targetArch, packageJson, readme, passed, total,
            allChecks, nvmrc, tools, remotes>>

----------------------------------------------------------------------------
(* Constants of the source *)

PLATFORMS ==
    [darwin |-> {"x64", "arm64"},
     linux  |-> {"x64", "arm64"},
     win32  |-> {"x64", "arm64"}]

\* the case labels of run()'s switch
Commands ==
    {"sync", "install", "build", "package", "archive", "test", "validate",
     "all", "help"}

\* case 'all' with two awaits exchanged
AllSteps_buildBeforeInstall ==
    <<"sync", "build", "install", "package", "archive", "validate">>

\* case 'all' of run(): the six methods in the order they are awaited
AllSteps == <<"sync", "install", "build", "package", "archive", "validate">>

\* requiredFiles of validateBuild
requiredFiles == <<"package.json", "product.json", ".build">>

----------------------------------------------------------------------------
(* JavaScript helpers *)

Includes(s, x) == \E i \in 1..Len(s) : s[i] = x

\* 0 stands for JavaScript's -1; positions are 1-based
IndexOf(s, x) ==
    IF Includes(s, x)
    THEN CHOOSE i \in 1..Len(s) : s[i] = x /\ \A j \in 1..(i - 1) : s[j] # x
    ELSE 0

RECURSIVE Flatten(_)
Flatten(ss) == IF ss = <<>> THEN <<>> ELSE Head(ss) \o Flatten(Tail(ss))

Line(level, msg) == [level |-> level, msg |-> msg]

HasError(lines) == \E i \in 1..Len(lines) : lines[i].level = "error"

----------------------------------------------------------------------------
(* Construction *)

\* getPlatformArg that reads the argument at platformIndex itself
getPlatformArg_readsFlag(av, hp) ==
    LET platformIndex == IndexOf(av, "--platform")
    IN  IF platformIndex # 0 /\ platformIndex + 1 <= Len(av)
        THEN av[platformIndex]
        ELSE hp

getPlatformArg(av, hp) ==
    LET platformIndex == IndexOf(av, "--platform")
    IN  IF platformIndex # 0 /\ platformIndex + 1 <= Len(av)
        THEN av[platformIndex + 1]
        ELSE hp

getArchArg(av, ha) ==
    LET archIndex == IndexOf(av, "--arch")
    IN  IF archIndex # 0 /\ archIndex + 1 <= Len(av)
        THEN av[archIndex + 1]
        ELSE IF ha = "arm64" THEN "arm64" ELSE "x64"

----------------------------------------------------------------------------
(* The inputs: command lines, hosts and working directories *)

PlatformArgs == {"", "darwin", "linux", "win32", "freebsd"}
ArchArgs == {"", "x64", "arm64", "ia32"}
Hosts == {<<"darwin", "arm64">>, <<"freebsd", "ia32">>}

Opt(flag, on) == IF on THEN <<flag>> ELSE <<>>
OptValue(flag, value) == IF value = "" THEN <<>> ELSE <<flag, value>>

\* command lines of src/unnamed/part_000: [command] [options]
CommandLines ==
    { Opt(c, c # "") \o OptValue("--platform", p) \o OptValue("--arch", a)
        \o Opt("--skip-sync", s) \o Opt("--verbose", v) :
        c \in Commands \cup {""}, p \in PlatformArgs, a \in ArchArgs,
        s \in BOOLEAN, v \in BOOLEAN }

\* command lines that end with --platform or --arch and no value after it
ValuelessLines ==
    { Opt(c, c # "") \o OptValue("--platform", p) \o OptValue("--arch", a)
        \o <<flag>> :
        c \in {"", "package"}, p \in PlatformArgs, a \in ArchArgs,
        flag \in {"--platform", "--arch"} }

\* command lines of src/build-cursorclone.js: [options]
OptionLines ==
    { OptValue("--platform", p) \o OptValue("--arch", a)
        \o Opt("--skip-sync", s) \o Opt("--verbose", v) \o Opt("--release", r)
        \o Opt("--help", h) :
        p \in PlatformArgs, a \in ArchArgs,
        s \in BOOLEAN, v \in BOOLEAN, r \in BOOLEAN, h \in BOOLEAN }

\* what an earlier x64 build leaves under .build
StaleDirs ==
    {<<"VSCode", "darwin">>, <<"VSCode", "linux", "x64">>,
     <<"VSCode", "win32", "x64">>}

NoProduct == [parses |-> FALSE, nameShort |-> "", applicationName |-> ""]

ProductContents ==
    {NoProduct} \cup
    [parses : {TRUE}, nameShort : {"CursorClone", "Code - OSS"},
     applicationName : {"cursorclone", "code-oss"}]

\* a package.json that is missing or is not JSON
NoPackage ==
    [parses |-> FALSE, name |-> "", author |-> [kind |-> "undefined", text |-> ""]]

Init ==
    /\ script \in {"part_000", "build-cursorclone.js"}
    /\ argv \in (IF script = "part_000" THEN CommandLines \cup ValuelessLines
                 ELSE OptionLines)
    /\ \E h \in Hosts : hostPlatform = h[1] /\ hostArch = h[2]
    \* constructor()
    /\ isVerbose = Includes(argv, "--verbose")
    /\ skipSync = Includes(argv, "--skip-sync")
    /\ targetPlatform = getPlatformArg(argv, hostPlatform)
    /\ targetArch = getArchArg(argv, hostArch)
    \* the working directory
    /\ files \in SUBSET {"package.json", "product.json", ".build"}
    /\ buildDirs \in {{}, StaleDirs}
    /\ buildDirs # {} => ".build" \in files
    /\ productJson \in ProductContents
    /\ "product.json" \notin files => productJson = NoProduct
    /\ archives = {}
    /\ head \in {"main", ""}
    /\ pc = "run"
    /\ todo = <<>>
    /\ results = <<>>
    /\ cmds = <<>>
    /\ log = <<>>
    /\ exitCode = 0
    /\ archiveRead = {}
    /\ packageJson = NoPackage
    /\ readme = {}
    /\ passed = 0
    /\ total = 0
    /\ allChecks = TRUE
    /\ nvmrc = <<>>
    /\ tools = {}
    /\ remotes = {}

----------------------------------------------------------------------------
(* src/unnamed/part_000 *)

\* execCommand with a catch that returns a failure value instead of throwing
execCommand_swallowsFailure(command, ok, out) ==
    [cmd   |-> command,
     ok    |-> ok,
     threw |-> FALSE,
     ret   |-> IF ~ok THEN "failure" ELSE IF isVerbose THEN "null" ELSE out,
     lines |-> <<Line("info", "Executing")>>
                 \o (IF ok THEN <<>> ELSE <<Line("error", "Command failed")>>)]

\* One call of execCommand.  ok: the command exits with 0; out: what it
\* prints.  execSync returns the output when stdio is 'pipe' and null when
\* stdio is 'inherit'; on a non-zero exit or a spawn failure it throws, and
\* execCommand logs the failure and throws the error again.
execCommand(command, ok, out) ==
    [cmd   |-> command,
     ok    |-> ok,
     threw |-> ~ok,
     ret   |-> IF ~ok THEN "none" ELSE IF isVerbose THEN "null" ELSE out,
     lines |-> <<Line("info", "Executing")>>
                 \o (IF ok THEN <<>> ELSE <<Line("error", "Command failed")>>)]

\* execCommand of build-cursorclone.js: two error lines on a failure
js_execCommand(command, ok, out) ==
    [cmd   |-> command,
     ok    |-> ok,
     threw |-> ~ok,
     ret   |-> IF ~ok THEN "none" ELSE IF isVerbose THEN "null" ELSE out,
     lines |-> <<Line("info", "Executing")>>
                 \o (IF ok THEN <<>>
                     ELSE <<Line("error", "Command failed"), Line("error", "error.message")>>)]

\* execCommand of the script that runs
Exec(command, ok, out) ==
    IF script = "part_000" THEN execCommand(command, ok, out)
    ELSE js_execCommand(command, ok, out)

\* The commands cs one after the other through execCommand, the first n
\* of them exiting with 0: a call that throws ends the sequence.
ExecSequence(cs, n) ==
    LET all == [i \in 1..Len(cs) |-> Exec(cs[i], i <= n, "output")]
        last == IF \E i \in 1..Len(cs) : all[i].threw
                THEN CHOOSE i \in 1..Len(cs) :
                        all[i].threw /\ \A j \in 1..(i - 1) : ~all[j].threw
                ELSE Len(cs)
    IN  SubSeq(all, 1, last)

Threw(execs) == execs # <<>> /\ execs[Len(execs)].threw

ExecLines(execs) == Flatten([i \in 1..Len(execs) |-> execs[i].lines])

\* run() with a catch that logs and does not call process.exit(1)
StepEndWith_catchGoesOn(name, lines, execs, threw, ret, catchLines) ==
    /\ cmds' = cmds \o execs
    /\ results' = Append(results,
                    [name |-> name, threw |-> threw, ret |-> ret,
                     errorLogged |-> HasError(lines),
                     lines |-> lines,
                     caught |-> IF threw THEN catchLines ELSE <<>>,
                     cmdFailed |-> \E i \in 1..Len(execs) : ~execs[i].ok])
    /\ log' = log \o lines \o (IF threw THEN catchLines ELSE <<>>)
    /\ todo' = Tail(todo)
    /\ UNCHANGED <<exitCode, pc>>

\* run(): what follows a method call inside the try block.  A method that
\* throws is caught: 'Build failed' is logged and the process exits with 1.
\* Otherwise run() goes on to the next call.
StepEndWith(name, lines, execs, threw, ret, catchLines) ==
    /\ cmds' = cmds \o execs
    /\ results' = Append(results,
                    [name |-> name, threw |-> threw, ret |-> ret,
                     errorLogged |-> HasError(lines),
                     lines |-> lines,
                     caught |-> IF threw THEN catchLines ELSE <<>>,
                     cmdFailed |-> \E i \in 1..Len(execs) : ~execs[i].ok])
    /\ IF threw
       THEN /\ log' = log \o lines \o catchLines
            /\ exitCode' = 1
            /\ pc' = "exited"
            /\ todo' = todo
       ELSE /\ log' = log \o lines
            /\ todo' = Tail(todo)
            /\ UNCHANGED <<exitCode, pc>>

StepEnd(name, lines, execs, threw, ret) ==
    StepEndWith(name, lines, execs, threw, ret, <<Line("error", "Build failed")>>)

\* the catch of run(), lines 211-215
js_StepEnd(name, lines, execs, threw, ret) ==
    StepEndWith(name, lines, execs, threw, ret,
                <<Line("error", "Build failed!"), Line("error", "error.message")>>)

\* the try and catch of the script that runs
End(name, lines, execs, threw, ret) ==
    IF script = "part_000" THEN StepEnd(name, lines, execs, threw, ret)
    ELSE js_StepEnd(name, lines, execs, threw, ret)

\* a switch whose default label falls into case 'all'
StepsOf_defaultRunsAll(command) ==
    IF command = "all" THEN AllSteps
    ELSE IF command \in Commands THEN <<command>>
    ELSE AllSteps

\* the switch of run()
StepsOf(command) ==
    IF command = "all" THEN AllSteps
    ELSE IF command \in Commands THEN <<command>>
    ELSE <<"help">>

run ==
    /\ script = "part_000"
    /\ pc = "run"
    /\ LET command == IF Len(argv) >= 1 THEN argv[1] ELSE "help"
       IN  todo' = StepsOf(command)
    /\ pc' = "steps"
    /\ UNCHANGED <<config, results, cmds, log, exitCode, files, buildDirs,
                   archives, productJson, head, archiveRead>>

Calls(name) ==
    /\ pc = "steps"
    /\ todo # <<>>
    /\ Head(todo) = name

\* `git checkout <branch>`; with an empty name git keeps the current branch
CheckedOut(current, branch) == IF branch = "" THEN current ELSE branch

\* The body of syncWithUpstream after the skipSync test, its commands going
\* through execCommand; n of the five commands exit with 0.  With --verbose it
\* returns null, and null.trim() throws a TypeError inside the try block.
SyncCommands(n) ==
    LET fetch    == Exec(<<"git", "fetch", "upstream">>, n >= 1, "output")
        show     == Exec(<<"git", "branch", "--show-current">>, n >= 2, head)
        currentBranch == show.ret
        backup   == Exec(<<"git", "checkout", "-b", "backup-TS">>, n >= 3, "output")
        checkout == Exec(<<"git", "checkout", currentBranch>>, n >= 4, "output")
        merge    == Exec(<<"git", "merge", "upstream/main", "--no-edit">>, n >= 5, "output")
        all      == <<fetch, show, backup, checkout, merge>>
        trimThrows == ~show.threw /\ show.ret = "null"
        Stops(i) == all[i].threw \/ (i = 2 /\ trimThrows)
        threw    == \E i \in 1..5 : Stops(i)
        last     == IF threw
                    THEN CHOOSE i \in 1..5 : Stops(i) /\ \A j \in 1..(i - 1) : ~Stops(j)
                    ELSE 5
    IN  [execs |-> SubSeq(all, 1, last),
         threw |-> threw,
         merging |-> last = 5,
         head  |-> IF last < 3 \/ (last = 3 /\ ~backup.ok) THEN head
                   ELSE IF last = 3 \/ (last = 4 /\ ~checkout.ok) THEN "backup-TS"
                   ELSE CheckedOut("backup-TS", currentBranch)]

SyncLines(r) ==
    <<Line("info", "Syncing with upstream VS Code...")>>
    \o ExecLines(SubSeq(r.execs, 1, IF r.merging THEN 4 ELSE Len(r.execs)))
    \o (IF r.merging
        THEN <<Line("info", "Merging upstream changes...")>> \o r.execs[5].lines
        ELSE <<>>)
    \o (IF r.threw
        THEN <<Line("error", "Failed to sync with upstream")>>
        ELSE <<Line("info", "Successfully synced with upstream")>>)

SyncBody(skip) ==
    IF skip
    THEN /\ End("sync", <<Line("info", "Skipping upstream sync as requested")>>,
                <<>>, FALSE, "undefined")
         /\ UNCHANGED head
    ELSE \E n \in 0..5 :
            LET r == SyncCommands(n)
            IN  /\ End("sync", SyncLines(r), r.execs, r.threw, "undefined")
                /\ head' = r.head

\* syncWithUpstream without the test of skipSync
syncWithUpstream_ignoresSkipSync ==
    /\ script = "part_000"
    /\ Calls("sync")
    /\ SyncBody(FALSE)
    /\ UNCHANGED <<config, files, buildDirs, archives, productJson, archiveRead>>

syncWithUpstream ==
    /\ script = "part_000"
    /\ Calls("sync")
    /\ SyncBody(skipSync)
    /\ UNCHANGED <<config, files, buildDirs, archives, productJson, archiveRead>>

\* a method that logs its last line also after a command failed
PlainBody_alwaysLogsAfter(name, before, cs, after) ==
    \E n \in 0..Len(cs) :
        LET execs == ExecSequence(cs, n)
            threw == Threw(execs)
        IN  End(name,
                    <<Line("info", before)>> \o ExecLines(execs)
                      \o <<Line("info", after)>>,
                    execs, threw, "undefined")

\* A method that logs a line, executes cs and logs a line when all succeeded
PlainBody(name, before, cs, after) ==
    \E n \in 0..Len(cs) :
        LET execs == ExecSequence(cs, n)
            threw == Threw(execs)
        IN  End(name,
                    <<Line("info", before)>> \o ExecLines(execs)
                      \o (IF threw THEN <<>> ELSE <<Line("info", after)>>),
                    execs, threw, "undefined")

installDependencies ==
    /\ script = "part_000"
    /\ Calls("install")
    /\ PlainBody("install", "Installing dependencies...",
                 <<(<<"npm", "install">>)>>, "Dependencies installed")
    /\ UNCHANGED <<config, files, buildDirs, archives, productJson, head,
                   archiveRead>>

buildCursorClone ==
    /\ script = "part_000"
    /\ Calls("build")
    /\ PlainBody("build", "Building CursorClone...",
                 << <<"npm", "run", "clean">>,
                    <<"npm", "run", "compile">>,
                    <<"npm", "run", "compile-extensions">>,
                    <<"npm", "run", "download-builtin-extensions">> >>,
                 "CursorClone build completed")
    /\ UNCHANGED <<config, files, buildDirs, archives, productJson, head,
                   archiveRead>>

runTests ==
    /\ script = "part_000"
    /\ Calls("test")
    /\ PlainBody("test", "Running tests...", <<(<<"npm", "test">>)>>,
                 "All tests passed")
    /\ UNCHANGED <<config, files, buildDirs, archives, productJson, head,
                   archiveRead>>

\* the test of packageApplication, lines 135-138
Supported(platform, arch) ==
    /\ platform \in DOMAIN PLATFORMS
    /\ arch \in PLATFORMS[platform]

\* The directory the gulp task vscode-<platform>-<arch> writes under .build,
\* as the release workflow archives it.
PackageOutputDir(platform, arch) == <<"VSCode", platform, arch>>

packageApplication ==
    /\ script = "part_000"
    /\ Calls("package")
    /\ LET platform == targetPlatform
           arch == targetArch
       IN  IF ~Supported(platform, arch)
           THEN /\ StepEnd("package",
                           <<Line("info", "Packaging application..."),
                             Line("error", "Unsupported platform/arch combination")>>,
                           <<>>, FALSE, "undefined")
                /\ UNCHANGED <<files, buildDirs>>
           ELSE \E ok \in BOOLEAN :
                LET e == execCommand(<<"npm", "run", "gulp", "--", "vscode", platform, arch>>,
                                     ok, "output")
                IN  /\ StepEnd("package",
                               <<Line("info", "Packaging application...")>> \o e.lines
                                 \o (IF e.threw THEN <<>>
                                     ELSE <<Line("info", "Application packaged successfully")>>),
                               <<e>>, e.threw, "undefined")
                    /\ IF ~e.threw
                       THEN /\ buildDirs' = buildDirs \cup {PackageOutputDir(platform, arch)}
                            /\ files' = files \cup {".build"}
                       ELSE UNCHANGED <<files, buildDirs>>
    /\ UNCHANGED <<config, archives, productJson, head, archiveRead>>

\* sourceDir of createArchive, lines 167-176; <<>> is undefined, which
\* fs.existsSync answers with false
ArchiveSourceDir(platform) ==
    IF platform = "darwin" THEN <<"VSCode", "darwin">>
    ELSE IF platform = "linux" THEN <<"VSCode", "linux", "x64">>
    ELSE IF platform = "win32" THEN <<"VSCode", "win32", "x64">>
    ELSE <<>>

\* archiveName of createArchive without the version
ArchiveName(platform, arch) ==
    IF platform = "linux" THEN <<"CursorClone", platform, arch, "tar.gz">>
    ELSE <<"CursorClone", platform, arch, "zip">>

Archiver(platform) == IF platform = "linux" THEN "tar" ELSE "zip"

createArchive ==
    /\ script = "part_000"
    /\ Calls("archive")
    /\ LET platform == targetPlatform
           arch == targetArch
           sourceDir == ArchiveSourceDir(platform)
           starting == <<Line("info", "Creating archive...")>>
       IN  IF "package.json" \notin files
           THEN \* require('./package.json') throws
                /\ StepEnd("archive", starting, <<>>, TRUE, "undefined")
                /\ UNCHANGED <<files, archives, archiveRead>>
           ELSE /\ archiveRead' = archiveRead \cup {sourceDir}
                /\ IF sourceDir \in buildDirs
                   THEN \E ok \in BOOLEAN :
                        LET e == execCommand(<<Archiver(platform)>> \o sourceDir, ok, "output")
                        IN  /\ files' = files \cup {"releases"}
                            /\ StepEnd("archive",
                                       starting \o e.lines
                                         \o (IF e.threw THEN <<>>
                                             ELSE <<Line("info", "Archive created")>>),
                                       <<e>>, e.threw, "undefined")
                            /\ archives' =
                                 IF ~e.threw
                                 THEN archives \cup {[name |-> ArchiveName(platform, arch),
                                                      source |-> sourceDir]}
                                 ELSE archives
                   ELSE /\ StepEnd("archive",
                                   starting \o <<Line("error", "Build directory not found")>>,
                                   <<>>, FALSE, "undefined")
                        /\ UNCHANGED <<files, archives>>
    /\ UNCHANGED <<config, buildDirs, productJson, head>>

\* the first of requiredFiles that does not exist, 0 when all exist
FirstMissing ==
    IF \E i \in 1..Len(requiredFiles) : requiredFiles[i] \notin files
    THEN CHOOSE i \in 1..Len(requiredFiles) :
            /\ requiredFiles[i] \notin files
            /\ \A j \in 1..(i - 1) : requiredFiles[j] \in files
    ELSE 0

\* validateBuild: its lines, whether it throws, what it returns
ValidateOutcome ==
    LET starting == <<Line("info", "Validating build...")>>
    IN  IF FirstMissing # 0
        THEN [lines |-> starting \o <<Line("error", "Required file missing")>>,
              threw |-> FALSE, ret |-> "false"]
        ELSE IF ~productJson.parses
        THEN [lines |-> starting, threw |-> TRUE, ret |-> "undefined"]
        ELSE IF productJson.applicationName # "cursorclone"
        THEN [lines |-> starting
                        \o <<Line("error", "Product configuration validation failed")>>,
              threw |-> FALSE, ret |-> "false"]
        ELSE [lines |-> starting \o <<Line("info", "Build validation passed")>>,
              threw |-> FALSE, ret |-> "true"]

validateBuild ==
    /\ script = "part_000"
    /\ Calls("validate")
    /\ LET v == ValidateOutcome
       IN  StepEnd("validate", v.lines, <<>>, v.threw, v.ret)
    /\ UNCHANGED <<config, files, buildDirs, archives, productJson, head,
                   archiveRead>>

showHelp ==
    /\ script = "part_000"
    /\ Calls("help")
    /\ StepEnd("help", <<>>, <<>>, FALSE, "undefined")
    /\ UNCHANGED <<config, files, buildDirs, archives, productJson, head,
                   archiveRead>>

\* run() returns: case 'all' logs its last line, and the process ends with
\* the exit code 0 because nothing called process.exit
runEnd ==
    /\ script = "part_000"
    /\ pc = "steps"
    /\ todo = <<>>
    /\ log' = IF Len(argv) >= 1 /\ argv[1] = "all"
              THEN Append(log, Line("info", "Complete build pipeline finished"))
              ELSE log
    /\ pc' = "exited"
    /\ UNCHANGED <<config, todo, results, cmds, exitCode, files, buildDirs,
                   archives, productJson, head, archiveRead>>

----------------------------------------------------------------------------
(* src/build-cursorclone.js *)

\* run() with validateBuild awaited after packageAll instead of first
js_Steps_validateLast ==
    <<"sync", "install", "build", "package">>
    \o (IF Includes(argv, "--release") THEN <<"release">> ELSE <<>>)
    \o <<"validate">>

\* run() without the test of --release before createRelease
js_Steps_alwaysReleases ==
    <<"validate", "sync", "install", "build", "package", "release">>

\* the calls of run() in their order; createRelease only with --release
js_Steps ==
    <<"validate", "sync", "install", "build", "package">>
    \o (IF Includes(argv, "--release") THEN <<"release">> ELSE <<>>)

\* Main execution, lines 246-254, up to the first call of run()
js_main ==
    /\ script = "build-cursorclone.js"
    /\ pc = "run"
    /\ IF Includes(argv, "--help")
       THEN /\ pc' = "exited"
            /\ UNCHANGED <<todo, log>>
       ELSE /\ pc' = "steps"
            /\ todo' = js_Steps
            /\ log' = Append(log, Line("info", "Starting CursorClone build process..."))
    /\ UNCHANGED <<config, results, cmds, exitCode, files, buildDirs, archives,
                   productJson, head, archiveRead>>

js_validateBuild ==
    /\ script = "build-cursorclone.js"
    /\ Calls("validate")
    /\ LET starting == <<Line("info", "Validating build...")>>
           throws == \/ "product.json" \notin files
                     \/ ~productJson.parses
                     \/ productJson.nameShort # "CursorClone"
                     \/ productJson.applicationName # "cursorclone"
       IN  js_StepEnd("validate",
                      starting \o (IF throws THEN <<>>
                                   ELSE <<Line("info", "Build validation passed")>>),
                      <<>>, throws, "undefined")
    /\ UNCHANGED <<config, files, buildDirs, archives, productJson, head,
                   archiveRead>>

js_syncWithUpstream ==
    /\ script = "build-cursorclone.js"
    /\ Calls("sync")
    /\ SyncBody(skipSync)
    /\ UNCHANGED <<config, files, buildDirs, archives, productJson, archiveRead>>

js_installDependencies ==
    /\ script = "build-cursorclone.js"
    /\ Calls("install")
    /\ PlainBody("install", "Installing dependencies...",
                 <<(<<"npm", "install">>)>>, "Dependencies installed")
    /\ UNCHANGED <<config, files, buildDirs, archives, productJson, head,
                   archiveRead>>

js_buildCursorClone ==
    /\ script = "build-cursorclone.js"
    /\ Calls("build")
    /\ PlainBody("build", "Building CursorClone...",
                 << <<"npm", "run", "clean">>,
                    <<"npm", "run", "compile">>,
                    <<"npm", "run", "compile-extensions">> >>,
                 "CursorClone compiled successfully")
    /\ UNCHANGED <<config, files, buildDirs, archives, productJson, head,
                   archiveRead>>

\* packageAll: targetPlatform and targetArch are never empty, so it is one
\* call of packageForPlatform
js_packageAll ==
    /\ script = "build-cursorclone.js"
    /\ Calls("package")
    /\ \E ok \in BOOLEAN :
        LET platform == targetPlatform
            arch == targetArch
            e == js_execCommand(<<"npx", "gulp", "vscode", platform, arch>>, ok, "output")
        IN  /\ js_StepEnd("package",
                          <<Line("info", "Packaging CursorClone")>> \o e.lines
                            \o (IF e.threw THEN <<Line("error", "Failed to package")>>
                                ELSE <<Line("info", "Successfully packaged")>>),
                          <<e>>, e.threw, "undefined")
            /\ IF ~e.threw
               THEN /\ buildDirs' = buildDirs \cup {PackageOutputDir(platform, arch)}
                    /\ files' = files \cup {".build"}
               ELSE UNCHANGED <<files, buildDirs>>
    /\ UNCHANGED <<config, archives, productJson, head, archiveRead>>

\* createRelease: a failing `git tag` is caught and logged as a warning
js_createRelease ==
    /\ script = "build-cursorclone.js"
    /\ Calls("release")
    /\ LET starting == <<Line("info", "Creating release...")>>
       IN  IF "package.json" \notin files
           THEN \* readFileSync('package.json') throws
                js_StepEnd("release", starting, <<>>, TRUE, "undefined")
           ELSE \E tagOk \in BOOLEAN, pushOk \in BOOLEAN :
                LET tag  == js_execCommand(<<"git", "tag", "-a", "vVERSION">>, tagOk, "output")
                    push == js_execCommand(<<"git", "push", "origin", "main", "--tags">>,
                                           pushOk, "output")
                IN  js_StepEnd("release",
                               starting \o tag.lines
                                 \o (IF tag.threw THEN <<Line("warn", "Tag might already exist")>>
                                     ELSE <<Line("info", "Created tag")>>)
                                 \o push.lines
                                 \o (IF push.threw THEN <<>>
                                     ELSE <<Line("info", "Release created and pushed")>>),
                               <<tag, push>>, push.threw, "undefined")
    /\ UNCHANGED <<config, files, buildDirs, archives, productJson, head,
                   archiveRead>>

\* run() returns after its last line
js_runEnd ==
    /\ script = "build-cursorclone.js"
    /\ pc = "steps"
    /\ todo = <<>>
    /\ log' = Append(log, Line("info", "CursorClone build completed successfully!"))
    /\ pc' = "exited"
    /\ UNCHANGED <<config, todo, results, cmds, exitCode, files, buildDirs,
                   archives, productJson, head, archiveRead>>

----------------------------------------------------------------------------

Next ==
    \/ run
    \/ syncWithUpstream
    \/ installDependencies
    \/ buildCursorClone
    \/ packageApplication
    \/ createArchive
    \/ runTests
    \/ validateBuild
    \/ showHelp
    \/ runEnd
    \/ js_main
    \/ js_validateBuild
    \/ js_syncWithUpstream
    \/ js_installDependencies
    \/ js_buildCursorClone
    \/ js_packageAll
    \/ js_createRelease
    \/ js_runEnd

Spec == Init /\ [][Next]_vars

----------------------------------------------------------------------------
(* src/validate-branding-clean.cjs, lines 1-146: the branding validator     *)
(*   script = "validate-branding"                                           *)

\* expectedValues of validateProductJson, in the order of Object.entries
productKeys ==
    <<"nameShort", "applicationName", "dataFolderName", "serverDataFolderName">>

productExpected ==
    [nameShort |-> "CursorClone", applicationName |-> "cursorclone",
     dataFolderName |-> ".cursorclone",
     serverDataFolderName |-> ".cursorclone-server"]

\* expectedValues of validatePackageJson
packageKeys == <<"name", "author">>

packageExpected == [name |-> "cursorclone", author |-> "CursorClone Team"]

\* requiredContent of validateReadme
requiredContent == <<"CursorClone", "AI-powered code editor", "build-cursorclone.js">>

\* a value of package.json as `!==` and a template literal see it: a string
\* is itself, an object prints as [object Object], a missing key is undefined
Shown(v) ==
    IF v.kind = "string" THEN v.text
    ELSE IF v.kind = "object" THEN "[object Object]"
    ELSE "undefined"

\* pkg[key] !== expectedValue is false only for a string with that text
StrictEqual(v, expectedValue) == v.kind = "string" /\ v.text = expectedValue

String(text) == [kind |-> "string", text |-> text]

\* pkg[key] of validatePackageJson
PackageField(key) ==
    IF key = "name" THEN String(packageJson.name) ELSE packageJson.author

\* log(message, isError) of the validator
BrandLog(isError, msg) == Line(IF isError THEN "error" ELSE "info", msg)

\* the line the loop over expectedValues logs for one key
CompareLine(file, key, expectedValue, got, equal) ==
    IF equal
    THEN [level |-> "info", msg |-> "correct", file |-> file, key |-> key]
    ELSE [level |-> "error", msg |-> "expected, got", file |-> file, key |-> key,
          expected |-> expectedValue, got |-> got]

\* validateProductJson with a loop that stops at the first mismatch
ValidateProduct_stopsAtMismatch ==
    IF "product.json" \notin files
    THEN [lines |-> <<BrandLog(TRUE, "product.json not found")>>, ret |-> "false"]
    ELSE IF ~productJson.parses
    THEN [lines |-> <<BrandLog(TRUE, "Failed to parse product.json")>>, ret |-> "false"]
    ELSE LET Equal(k) == productJson[productKeys[k]] = productExpected[productKeys[k]]
             n == Len(productKeys)
             last == IF \E k \in 1..n : ~Equal(k)
                     THEN CHOOSE k \in 1..n : ~Equal(k) /\ \A j \in 1..(k - 1) : Equal(j)
                     ELSE n
         IN  [lines |-> [k \in 1..last |->
                            CompareLine("product.json", productKeys[k],
                                        productExpected[productKeys[k]],
                                        productJson[productKeys[k]], Equal(k))],
              ret |-> IF \A k \in 1..n : Equal(k) THEN "true" ELSE "false"]

\* validateProductJson: its lines and what it returns
ValidateProduct ==
    IF "product.json" \notin files
    THEN [lines |-> <<BrandLog(TRUE, "product.json not found")>>, ret |-> "false"]
    ELSE IF ~productJson.parses
    THEN [lines |-> <<BrandLog(TRUE, "Failed to parse product.json")>>, ret |-> "false"]
    ELSE LET Equal(k) == productJson[productKeys[k]] = productExpected[productKeys[k]]
             n == Len(productKeys)
         IN  [lines |-> [k \in 1..n |->
                            CompareLine("product.json", productKeys[k],
                                        productExpected[productKeys[k]],
                                        productJson[productKeys[k]], Equal(k))],
              ret |-> IF \A k \in 1..n : Equal(k) THEN "true" ELSE "false"]

\* validatePackageJson: its lines and what it returns
ValidatePackage ==
    IF "package.json" \notin files
    THEN [lines |-> <<BrandLog(TRUE, "package.json not found")>>, ret |-> "false"]
    ELSE IF ~packageJson.parses
    THEN [lines |-> <<BrandLog(TRUE, "Failed to parse package.json")>>, ret |-> "false"]
    ELSE LET Equal(k) == StrictEqual(PackageField(packageKeys[k]),
                                     packageExpected[packageKeys[k]])
             n == Len(packageKeys)
         IN  [lines |-> [k \in 1..n |->
                            CompareLine("package.json", packageKeys[k],
                                        packageExpected[packageKeys[k]],
                                        Shown(PackageField(packageKeys[k])), Equal(k))],
              ret |-> IF \A k \in 1..n : Equal(k) THEN "true" ELSE "false"]

\* validateReadme: its lines and what it returns
ValidateReadme ==
    IF "README.md" \notin files
    THEN [lines |-> <<BrandLog(TRUE, "README.md not found")>>, ret |-> "false"]
    ELSE LET n == Len(requiredContent)
         IN  [lines |-> [k \in 1..n |->
                            IF requiredContent[k] \in readme
                            THEN [level |-> "info", msg |-> "contains",
                                  required |-> requiredContent[k]]
                            ELSE [level |-> "error", msg |-> "missing required content",
                                  required |-> requiredContent[k]]],
              ret |-> IF \A k \in 1..n : requiredContent[k] \in readme
                      THEN "true" ELSE "false"]

\* an array literal that holds validateProductJson() only
brand_Validations_productOnly ==
    <<"validateProductJson">>

\* the elements of the array literal `validations`, evaluated in order
brand_Validations ==
    <<"validateProductJson", "validatePackageJson", "validateReadme">>

\* main() up to the array literal
brand_main ==
    /\ script = "validate-branding"
    /\ pc = "run"
    /\ log' = Append(log, BrandLog(FALSE, "Starting branding validation..."))
    /\ todo' = brand_Validations
    /\ pc' = "steps"
    /\ UNCHANGED <<config, results, cmds, exitCode, files, buildDirs, archives,
                   productJson, head, archiveRead>>

\* one element of `validations` is evaluated: the function runs, never throws
CallValidator(name, v) ==
    /\ Calls(name)
    /\ results' = Append(results,
                    [name |-> name, threw |-> FALSE, ret |-> v.ret,
                     errorLogged |-> HasError(v.lines), lines |-> v.lines,
                     caught |-> <<>>, cmdFailed |-> FALSE])
    /\ log' = log \o v.lines
    /\ todo' = Tail(todo)
    /\ UNCHANGED <<config, pc, cmds, exitCode, files, buildDirs, archives,
                   productJson, head, archiveRead>>

validateProductJson ==
    /\ script = "validate-branding"
    /\ CallValidator("validateProductJson", ValidateProduct)

validatePackageJson ==
    /\ script = "validate-branding"
    /\ CallValidator("validatePackageJson", ValidatePackage)

validateReadme ==
    /\ script = "validate-branding"
    /\ CallValidator("validateReadme", ValidateReadme)

\* main() after the array literal: every(), the last line and process.exit
brand_exit ==
    /\ script = "validate-branding"
    /\ pc = "steps"
    /\ todo = <<>>
    /\ LET allValid == \A i \in 1..Len(results) : results[i].ret = "true"
       IN  IF allValid
           THEN /\ log' = Append(log, BrandLog(FALSE, "All branding validations passed!"))
                /\ exitCode' = 0
           ELSE /\ log' = Append(log, BrandLog(TRUE, "Some branding validations failed!"))
                /\ exitCode' = 1
    /\ pc' = "exited"
    /\ UNCHANGED <<config, todo, results, cmds, files, buildDirs, archives,
                   productJson, head, archiveRead>>

----------------------------------------------------------------------------
(* src/validate-branding-clean.cjs, lines 148-267: the build-environment    *)
(* test   script = "test-environment"                                       *)

\* what the test script never assigns
fixed == <<script, argv, hostPlatform, hostArch, isVerbose, skipSync,
           targetPlatform, targetArch, packageJson, readme, allChecks, nvmrc,
           tools, remotes>>

\* coreFiles of main()
coreFiles ==
    <<"product.json", "package.json", "build-cursorclone.js",
      "setup-cursorclone.sh", ".github/workflows/build.yml">>

\* the checks of main() in their order: the files, the two contents, the two
\* commands
test_Checks ==
    coreFiles \o <<"productContent", "packageContent", "gitRemotes", "nodeVersion">>

\* log(message, level) of the test script
TestLog(level, msg) == Line(level, msg)

\* the try block of the product.json check, lines 216-226
ProductBranded ==
    IF "product.json" \notin files \/ ~productJson.parses
    THEN [ok |-> FALSE, lines |-> <<TestLog("error", "Error reading product.json")>>]
    ELSE IF /\ productJson.nameShort = "CursorClone"
            /\ productJson.applicationName = "cursorclone"
    THEN [ok |-> TRUE, lines |-> <<TestLog("info", "Product configuration properly branded")>>]
    ELSE [ok |-> FALSE,
          lines |-> <<TestLog("error", "Product configuration not properly branded")>>]

\* pkg.author.name: a TypeError when author is undefined, undefined when
\* author is a string, the name when author is an object
AuthorName(author) ==
    IF author.kind = "undefined" THEN "TypeError"
    ELSE IF author.kind = "object" THEN author.text
    ELSE "undefined"

\* the try block of the package.json check, lines 230-240; && does not
\* evaluate pkg.author.name when the name differs
PackageBranded ==
    IF "package.json" \notin files \/ ~packageJson.parses
    THEN [ok |-> FALSE, lines |-> <<TestLog("error", "Error reading package.json")>>]
    ELSE IF packageJson.name # "cursorclone"
    THEN [ok |-> FALSE,
          lines |-> <<TestLog("error", "Package configuration not properly branded")>>]
    ELSE IF AuthorName(packageJson.author) = "TypeError"
    THEN [ok |-> FALSE, lines |-> <<TestLog("error", "Error reading package.json")>>]
    ELSE IF AuthorName(packageJson.author) = "CursorClone Team"
    THEN [ok |-> TRUE, lines |-> <<TestLog("info", "Package configuration properly branded")>>]
    ELSE [ok |-> FALSE,
          lines |-> <<TestLog("error", "Package configuration not properly branded")>>]

\* main() up to the first check
test_main ==
    /\ script = "test-environment"
    /\ pc = "run"
    /\ log' = Append(log, TestLog("info", "Testing CursorClone Build Environment"))
    /\ passed' = 0
    /\ total' = 0
    /\ todo' = test_Checks
    /\ pc' = "steps"
    /\ UNCHANGED <<fixed, results, cmds, exitCode, files, buildDirs, archives,
                   productJson, head, archiveRead>>

\* a check that increments passed whatever its outcome
Check_countsFailures(name, ok, lines) ==
    /\ total' = total + 1
    /\ passed' = passed + 1
    /\ results' = Append(results,
                    [name |-> name, threw |-> FALSE,
                     ret |-> IF ok THEN "true" ELSE "false",
                     errorLogged |-> HasError(lines), lines |-> lines,
                     caught |-> <<>>, cmdFailed |-> FALSE])
    /\ log' = log \o lines
    /\ todo' = Tail(todo)
    /\ UNCHANGED <<fixed, pc, exitCode, files, buildDirs, archives, productJson,
                   head, archiveRead>>

\* one check: total++, and passed++ when the check was passed
Check(name, ok, lines) ==
    /\ total' = total + 1
    /\ passed' = IF ok THEN passed + 1 ELSE passed
    /\ results' = Append(results,
                    [name |-> name, threw |-> FALSE,
                     ret |-> IF ok THEN "true" ELSE "false",
                     errorLogged |-> HasError(lines), lines |-> lines,
                     caught |-> <<>>, cmdFailed |-> FALSE])
    /\ log' = log \o lines
    /\ todo' = Tail(todo)
    /\ UNCHANGED <<fixed, pc, exitCode, files, buildDirs, archives, productJson,
                   head, archiveRead>>

\* one turn of coreFiles.forEach
test_checkFile ==
    /\ script = "test-environment"
    /\ pc = "steps" /\ todo # <<>>
    /\ \E k \in 1..Len(coreFiles) : Head(todo) = coreFiles[k]
    /\ LET file == Head(todo)
       IN  Check(file, file \in files,
                 IF file \in files THEN <<TestLog("info", "exists")>>
                 ELSE <<TestLog("error", "missing")>>)
    /\ UNCHANGED cmds

test_productContent ==
    /\ script = "test-environment"
    /\ Calls("productContent")
    /\ Check("productContent", ProductBranded.ok, ProductBranded.lines)
    /\ UNCHANGED cmds

test_packageContent ==
    /\ script = "test-environment"
    /\ Calls("packageContent")
    /\ Check("packageContent", PackageBranded.ok, PackageBranded.lines)
    /\ UNCHANGED cmds

\* runCommand: execSync in a try block, an error is logged and false returned
test_runCommand ==
    /\ script = "test-environment"
    /\ pc = "steps" /\ todo # <<>>
    /\ Head(todo) \in {"gitRemotes", "nodeVersion"}
    /\ \E ok \in BOOLEAN :
        LET command == IF Head(todo) = "gitRemotes" THEN <<"git", "remote", "-v">>
                       ELSE <<"node", "--version">>
            lines == <<TestLog("info", "Testing")>>
                     \o (IF ok THEN <<TestLog("info", "SUCCESS")>>
                         ELSE <<TestLog("error", "FAILED")>>)
        IN  /\ Check(Head(todo), ok, lines)
            /\ cmds' = Append(cmds,
                          [cmd |-> command, ok |-> ok, threw |-> FALSE,
                           ret |-> IF ok THEN "true" ELSE "false", lines |-> lines])

\* the summary of main() and process.exit(main())
test_summary ==
    /\ script = "test-environment"
    /\ pc = "steps"
    /\ todo = <<>>
    /\ IF passed = total
       THEN /\ log' = log \o <<TestLog("info", ""), TestLog("info", "Test Results"),
                                TestLog("info", "All tests passed!")>>
            /\ exitCode' = 0
       ELSE /\ log' = log \o <<TestLog("info", ""), TestLog("info", "Test Results"),
                                TestLog("warn", "tests failed")>>
            /\ exitCode' = 1
    /\ pc' = "exited"
    /\ UNCHANGED <<fixed, passed, total, todo, results, cmds, files, buildDirs,
                   archives, productJson, head, archiveRead>>

----------------------------------------------------------------------------
(* The branding checks of the repository: the validator, the test script    *)
(* and the validate command of src/unnamed/part_000                         *)

BrandedProducts ==
    [parses : {TRUE}, nameShort : {"CursorClone", "Code - OSS"},
     applicationName : {"cursorclone", "code-oss"},
     dataFolderName : {".cursorclone", "undefined"},
     serverDataFolderName : {".cursorclone-server", ".vscode-server-oss"}]

\* a product.json that is missing or is not JSON
NoBrandedProduct ==
    [parses |-> FALSE, nameShort |-> "", applicationName |-> "",
     dataFolderName |-> "", serverDataFolderName |-> ""]

\* author of package.json: absent, a string, or an object with a name
Authors ==
    {[kind |-> "undefined", text |-> ""]}
    \cup [kind : {"string", "object"}, text : {"CursorClone Team", "Microsoft Corporation"}]

Packages ==
    [parses : {TRUE}, name : {"cursorclone", "code-oss-dev"}, author : Authors]

\* the other files the scripts look for
OtherFiles ==
    {"build-cursorclone.js", "setup-cursorclone.sh", ".github/workflows/build.yml"}

BrandInit ==
    /\ script \in {"validate-branding", "test-environment", "part_000"}
    /\ argv = (IF script = "part_000" THEN <<"validate">> ELSE <<>>)
    /\ hostPlatform = "darwin" /\ hostArch = "arm64"
    /\ isVerbose = Includes(argv, "--verbose")
    /\ skipSync = Includes(argv, "--skip-sync")
    /\ targetPlatform = getPlatformArg(argv, hostPlatform)
    /\ targetArch = getArchArg(argv, hostArch)
    \* the working directory
    /\ \E present \in SUBSET {"product.json", "package.json"},
          others \in {{}, OtherFiles},
          docs \in (IF script = "validate-branding" THEN SUBSET {"README.md"}
                    ELSE IF script = "part_000" THEN SUBSET {".build"}
                    ELSE {{}}) :
            files = present \cup docs
                    \cup (IF script = "test-environment" THEN others ELSE {})
    /\ productJson \in {NoBrandedProduct} \cup BrandedProducts
    /\ "product.json" \notin files => productJson = NoBrandedProduct
    /\ packageJson \in {NoPackage} \cup Packages
    /\ "package.json" \notin files => packageJson = NoPackage
    /\ script = "part_000" => packageJson = NoPackage
    /\ readme \in SUBSET {requiredContent[k] : k \in 1..Len(requiredContent)}
    /\ "README.md" \notin files => readme = {}
    /\ buildDirs = {}
    /\ archives = {}
    /\ head = "main"
    /\ pc = "run"
    /\ todo = <<>>
    /\ results = <<>>
    /\ cmds = <<>>
    /\ log = <<>>
    /\ exitCode = 0
    /\ archiveRead = {}
    /\ passed = 0
    /\ total = 0
    /\ allChecks = TRUE
    /\ nvmrc = <<>>
    /\ tools = {}
    /\ remotes = {}

BrandNext ==
    \/ brand_main
    \/ validateProductJson
    \/ validatePackageJson
    \/ validateReadme
    \/ brand_exit
    \/ test_main
    \/ test_checkFile
    \/ test_productContent
    \/ test_packageContent
    \/ test_runCommand
    \/ test_summary
    \/ run
    \/ validateBuild
    \/ runEnd

BrandSpec == BrandInit /\ [][BrandNext]_vars

----------------------------------------------------------------------------
(* src/test-build-clean.cjs, lines 1-131: the environment validation        *)
(*   script = "test-build"                                                  *)

\* what the environment validation never assigns
envFixed == <<script, argv, hostPlatform, hostArch, isVerbose, skipSync,
              targetPlatform, targetArch, packageJson, readme, passed, total,
              nvmrc, tools, remotes, files, buildDirs, archives, productJson,
              head, archiveRead>>

\* process.version, character by character
processVersion == <<"v", "2", "0", ".", "1">>

Whitespace == {" ", "LF"}

\* String.prototype.trim on a sequence of characters
RECURSIVE Trim(_)
Trim(chars) ==
    IF chars = <<>> THEN <<>>
    ELSE IF Head(chars) \in Whitespace THEN Trim(Tail(chars))
    ELSE IF chars[Len(chars)] \in Whitespace THEN Trim(SubSeq(chars, 1, Len(chars) - 1))
    ELSE chars

\* String.prototype.startsWith
StartsWith(chars, prefix) ==
    /\ Len(prefix) <= Len(chars)
    /\ SubSeq(chars, 1, Len(prefix)) = prefix

\* requiredFiles of main()
env_requiredFiles == <<"package.json", "product.json", "tsconfig.json", "gulpfile.js">>

\* the build tools main() looks for on a platform, lines 111-118
PlatformTools(platform) ==
    IF platform = "darwin" THEN <<"xcode-select">>
    ELSE IF platform = "linux" THEN <<"gcc", "make">>
    ELSE IF platform = "win32" THEN <<"cl">>
    ELSE <<>>

\* the checks of main() in their order
env_Checks(platform) ==
    <<"nodeVersion">> \o env_requiredFiles
    \o <<"git", "gitRemotes", "npm", "node_modules", "python3">>
    \o PlatformTools(platform)

\* the command lines of runCommand's callers
env_Command(name) ==
    IF name = "git" THEN <<"git", "--version">>
    ELSE IF name = "gitRemotes" THEN <<"git", "remote", "-v">>
    ELSE IF name = "npm" THEN <<"npm", "--version">>
    ELSE IF name = "python3" THEN <<"python3", "--version">>
    ELSE IF name = "cl" THEN <<"where", "cl">>
    ELSE <<name, "--version">>

\* checkNodeVersion: false only when .nvmrc exists and process.version does
\* not start with v and its trimmed content
checkNodeVersion ==
    LET expectedVersion == Trim(nvmrc)
        first == <<Line("info", "Node.js version")>>
    IN  IF ".nvmrc" \notin files
        THEN [ok |-> TRUE, lines |-> first]
        ELSE IF ~StartsWith(processVersion, <<"v">> \o expectedVersion)
        THEN [ok |-> FALSE,
              lines |-> first \o <<Line("info", "Expected Node.js version"),
                                   Line("warn", "Node.js version mismatch")>>]
        ELSE [ok |-> TRUE, lines |-> first \o <<Line("info", "Expected Node.js version")>>]

\* main() up to the first check
env_main ==
    /\ script = "test-build"
    /\ pc = "run"
    /\ log' = Append(log, Line("info", "Starting CursorClone build environment validation..."))
    /\ allChecks' = TRUE
    /\ todo' = env_Checks(hostPlatform)
    /\ pc' = "steps"
    /\ UNCHANGED <<envFixed, results, cmds, exitCode>>

\* a check whose failure clears allChecks also when main() ignores its result
EnvCheck_optionalCounts(name, ok, lines, required) ==
    /\ allChecks' = IF ~ok THEN FALSE ELSE allChecks
    /\ results' = Append(results,
                    [name |-> name, threw |-> FALSE,
                     ret |-> IF ok THEN "true" ELSE "false",
                     errorLogged |-> HasError(lines), lines |-> lines,
                     caught |-> <<>>, cmdFailed |-> FALSE])
    /\ log' = log \o lines
    /\ todo' = Tail(todo)
    /\ UNCHANGED <<envFixed, pc, exitCode>>

\* one check of main(): `if (!check) allChecks = false` for a required
\* check, the bare call for an optional one
EnvCheck(name, ok, lines, required) ==
    /\ allChecks' = IF required /\ ~ok THEN FALSE ELSE allChecks
    /\ results' = Append(results,
                    [name |-> name, threw |-> FALSE,
                     ret |-> IF ok THEN "true" ELSE "false",
                     errorLogged |-> HasError(lines), lines |-> lines,
                     caught |-> <<>>, cmdFailed |-> FALSE])
    /\ log' = log \o lines
    /\ todo' = Tail(todo)
    /\ UNCHANGED <<envFixed, pc, exitCode>>

env_checkNodeVersion ==
    /\ script = "test-build"
    /\ Calls("nodeVersion")
    /\ EnvCheck("nodeVersion", checkNodeVersion.ok, checkNodeVersion.lines, TRUE)
    /\ UNCHANGED cmds

\* checkFile for one of requiredFiles and for node_modules
env_checkFile ==
    /\ script = "test-build"
    /\ pc = "steps" /\ todo # <<>>
    /\ \/ \E k \in 1..Len(env_requiredFiles) : Head(todo) = env_requiredFiles[k]
       \/ Head(todo) = "node_modules"
    /\ LET file == Head(todo)
           found == file \in files
       IN  EnvCheck(file, found,
                    IF found THEN <<Line("info", "exists")>>
                    ELSE <<Line("error", "missing")>>
                         \o (IF file = "node_modules"
                             THEN <<Line("warn", "Run npm install to install dependencies")>>
                             ELSE <<>>),
                    TRUE)
    /\ UNCHANGED cmds

\* runCommand: execSync in a try block; main() tests the result for git,
\* git remotes and npm and ignores it for python3 and the platform tools
env_runCommand ==
    /\ script = "test-build"
    /\ pc = "steps" /\ todo # <<>>
    /\ Head(todo) \in {"git", "gitRemotes", "npm", "python3", "xcode-select",
                        "gcc", "make", "cl"}
    /\ \E ok \in BOOLEAN :
        LET name == Head(todo)
            lines == <<Line("info", "Testing")>>
                     \o (IF ok THEN <<Line("info", "Success")>>
                         ELSE <<Line("error", "Failed")>>)
        IN  /\ EnvCheck(name, ok, lines, name \in {"git", "gitRemotes", "npm"})
            /\ cmds' = Append(cmds,
                          [cmd |-> env_Command(name), ok |-> ok, threw |-> FALSE,
                           ret |-> IF ok THEN "true" ELSE "false", lines |-> lines])

\* the summary of main(): process.exit(1) when allChecks is false
env_summary ==
    /\ script = "test-build"
    /\ pc = "steps"
    /\ todo = <<>>
    /\ IF allChecks
       THEN /\ log' = Append(log, Line("info", "All environment checks passed!"))
            /\ exitCode' = 0
       ELSE /\ log' = Append(log, Line("error", "Some environment checks failed."))
            /\ exitCode' = 1
    /\ pc' = "exited"
    /\ UNCHANGED <<envFixed, allChecks, todo, results, cmds>>

----------------------------------------------------------------------------
(* src/setup-cursorclone-clean.sh: the development environment setup, a     *)
(* shell script under `set -e`   script = "setup"                           *)

\* what the setup script never changes
setupFixed == <<script, argv, hostPlatform, hostArch, isVerbose, skipSync,
                targetPlatform, targetArch, packageJson, readme, passed, total,
                allChecks, nvmrc, tools, buildDirs, archives, productJson,
                head, archiveRead>>

\* the sections of the script after the prerequisite checks, in their order
setup_Sections ==
    <<"nodeVersion", "remotes", "fetch", "install", "extensions", "compile",
      "branding", "vscode">>

\* the files the last section writes
VscodeFiles ==
    {".vscode", ".vscode/launch.json", ".vscode/tasks.json", ".vscode/settings.json"}

\* the exit statuses of a failing git, node or npm
FailureStatuses == {1, 128}

\* one command the shell executes
Sh(command, ok) ==
    [cmd |-> command, ok |-> ok, threw |-> FALSE,
     ret |-> IF ok THEN "0" ELSE "non-zero", lines |-> <<>>]

\* A section ends: with status 0 the script goes on to the next section,
\* with any other status the shell exits with it (exit 1, or set -e after a
\* command that failed outside a condition)
Section(name, lines, execs, status) ==
    /\ results' = Append(results,
                    [name |-> name, threw |-> FALSE,
                     ret |-> IF status = 0 THEN "true" ELSE "false",
                     errorLogged |-> HasError(lines), lines |-> lines,
                     caught |-> <<>>,
                     cmdFailed |-> \E i \in 1..Len(execs) : ~execs[i].ok])
    /\ log' = log \o lines
    /\ cmds' = cmds \o execs
    /\ IF status = 0
       THEN /\ todo' = Tail(todo)
            /\ UNCHANGED <<exitCode, pc>>
       ELSE /\ exitCode' = status
            /\ pc' = "exited"
            /\ todo' = todo

\* the first prerequisite that is not met, "" when all are; lines 11-36
FirstUnmet ==
    IF "git" \notin tools THEN "Error: Git is not installed"
    ELSE IF "node" \notin tools THEN "Error: Node.js is not installed"
    ELSE IF "npm" \notin tools THEN "Error: npm is not installed"
    ELSE IF ".git" \notin files THEN "Error: Not in a git repository"
    ELSE IF "product.json" \notin files \/ "package.json" \notin files
    THEN "Error: This doesn't appear to be a VS Code repository"
    ELSE ""

\* prerequisite checks that only print their error and go on
setup_prerequisites_onlyWarns ==
    /\ script = "setup"
    /\ pc = "run"
    /\ log' = IF FirstUnmet # "" THEN Append(log, Line("error", FirstUnmet))
              ELSE Append(log, Line("info", "Setting up CursorClone development environment..."))
    /\ todo' = setup_Sections
    /\ pc' = "steps"
    /\ UNCHANGED <<setupFixed, exitCode, results, cmds, files, remotes>>

\* lines 11-38: the first unmet prerequisite is printed and the script
\* exits with 1; otherwise the setup begins
setup_prerequisites ==
    /\ script = "setup"
    /\ pc = "run"
    /\ IF FirstUnmet # ""
       THEN /\ log' = Append(log, Line("error", FirstUnmet))
            /\ exitCode' = 1
            /\ pc' = "exited"
            /\ UNCHANGED todo
       ELSE /\ log' = Append(log, Line("info", "Setting up CursorClone development environment..."))
            /\ todo' = setup_Sections
            /\ pc' = "steps"
            /\ UNCHANGED exitCode
    /\ UNCHANGED <<setupFixed, results, cmds, files, remotes>>

\* $(cat .nvmrc): command substitution drops trailing newlines
RECURSIVE DropTrailingNewlines(_)
DropTrailingNewlines(chars) ==
    IF chars # <<>> /\ chars[Len(chars)] = "LF"
    THEN DropTrailingNewlines(SubSeq(chars, 1, Len(chars) - 1))
    ELSE chars

\* lines 40-56: `node --version` in an assignment, then the comparison with
\* .nvmrc, which only prints a warning
setup_nodeVersion ==
    /\ script = "setup"
    /\ Calls("nodeVersion")
    /\ \E ok \in BOOLEAN, status \in FailureStatuses :
        LET node == Sh(<<"node", "--version">>, ok)
            expected == DropTrailingNewlines(nvmrc)
            mismatch == /\ ".nvmrc" \in files
                        /\ ~StartsWith(processVersion, <<"v">> \o expected)
        IN  IF ok
            THEN Section("nodeVersion",
                         <<Line("info", "Current Node.js version")>>
                           \o (IF mismatch
                               THEN <<Line("warn", "Warning: Node.js version mismatch")>>
                               ELSE <<>>),
                         <<node>>, 0)
            ELSE Section("nodeVersion", <<>>, <<node>>, status)
    /\ UNCHANGED <<setupFixed, files, remotes>>

\* lines 58-67: `git remote add upstream` unless the remote exists
setup_remotes ==
    /\ script = "setup"
    /\ Calls("remotes")
    /\ LET getUrl == Sh(<<"git", "remote", "get-url", "upstream">>, "upstream" \in remotes)
           starting == <<Line("info", "Configuring git remotes...")>>
       IN  IF getUrl.ok
           THEN /\ Section("remotes",
                           starting \o <<Line("info", "Upstream remote already configured")>>,
                           <<getUrl>>, 0)
                /\ UNCHANGED remotes
           ELSE \E ok \in BOOLEAN, status \in FailureStatuses :
                LET add == Sh(<<"git", "remote", "add", "upstream">>, ok)
                IN  /\ Section("remotes",
                               starting \o <<Line("info", "Adding upstream remote for VS Code...")>>,
                               <<getUrl, add>>, IF ok THEN 0 ELSE status)
                    /\ remotes' = IF ok THEN remotes \cup {"upstream"} ELSE remotes
    /\ UNCHANGED <<setupFixed, files>>

\* lines 69-71: `git fetch upstream` outside any condition
setup_fetch ==
    /\ script = "setup"
    /\ Calls("fetch")
    /\ \E ok \in BOOLEAN, status \in FailureStatuses :
        Section("fetch", <<Line("info", "Fetching from upstream...")>>,
                <<Sh(<<"git", "fetch", "upstream">>, ok)>>, IF ok THEN 0 ELSE status)
    /\ UNCHANGED <<setupFixed, files, remotes>>

\* dependency installation that gives up after the first npm install
InstallOutcome_noFallback(installOk, fallbackOk) ==
    LET install == Sh(<<"npm", "install">>, installOk)
        starting == <<Line("info", "Installing dependencies...")>>
    IN  IF installOk
        THEN [execs |-> <<install>>, status |-> 0,
              lines |-> starting \o <<Line("info", "Dependencies installed successfully")>>]
        ELSE [execs |-> <<install>>, status |-> 1,
              lines |-> starting \o <<Line("info", "Failed to install dependencies")>>]

\* lines 73-86: npm install, the fallback with --ignore-scripts, exit 1
InstallOutcome(installOk, fallbackOk) ==
    LET install == Sh(<<"npm", "install">>, installOk)
        fallback == Sh(<<"npm", "install", "--ignore-scripts">>, fallbackOk)
        starting == <<Line("info", "Installing dependencies...")>>
    IN  IF installOk
        THEN [execs |-> <<install>>, status |-> 0,
              lines |-> starting \o <<Line("info", "Dependencies installed successfully")>>]
        ELSE IF fallbackOk
        THEN [execs |-> <<install, fallback>>, status |-> 0,
              lines |-> starting
                        \o <<Line("info", "Failed to install dependencies normally"),
                             Line("info", "Dependencies installed with --ignore-scripts")>>]
        ELSE [execs |-> <<install, fallback>>, status |-> 1,
              lines |-> starting
                        \o <<Line("info", "Failed to install dependencies normally"),
                             Line("info", "Failed to install dependencies")>>]

setup_install ==
    /\ script = "setup"
    /\ Calls("install")
    /\ \E installOk \in BOOLEAN, fallbackOk \in BOOLEAN :
        LET r == InstallOutcome(installOk, fallbackOk)
        IN  Section("install", r.lines, r.execs, r.status)
    /\ UNCHANGED <<setupFixed, files, remotes>>

\* the command of a section whose failure is only a warning
NonFatalCommand(name) ==
    IF name = "extensions" THEN <<"npm", "run", "download-builtin-extensions">>
    ELSE IF name = "compile" THEN <<"npm", "run", "compile">>
    ELSE <<"node", "validate-branding.js">>

\* lines 88-111: a command in the condition of an if; the else branch
\* prints a warning
setup_nonFatal ==
    /\ script = "setup"
    /\ pc = "steps" /\ todo # <<>>
    /\ Head(todo) \in {"extensions", "compile", "branding"}
    /\ \E ok \in BOOLEAN :
        Section(Head(todo),
                <<Line("info", "starting")>>
                  \o (IF ok THEN <<Line("info", "done")>>
                      ELSE <<Line("warn", "Warning")>>),
                <<Sh(NonFatalCommand(Head(todo)), ok)>>, 0)
    /\ UNCHANGED <<setupFixed, files, remotes>>

\* lines 113-239: mkdir -p .vscode and the three here-documents
setup_vscode ==
    /\ script = "setup"
    /\ Calls("vscode")
    /\ Section("vscode",
               <<Line("info", "Setting up VS Code development configuration...")>>,
               <<>>, 0)
    /\ files' = files \cup VscodeFiles
    /\ UNCHANGED <<setupFixed, remotes>>

\* lines 241-260: the last lines; the script ends with status 0
setup_done ==
    /\ script = "setup"
    /\ pc = "steps"
    /\ todo = <<>>
    /\ log' = Append(log, Line("info", "Development environment setup completed!"))
    /\ exitCode' = 0
    /\ pc' = "exited"
    /\ UNCHANGED <<setupFixed, todo, results, cmds, files, remotes>>

----------------------------------------------------------------------------
(* The environment scripts: the environment validation and the setup        *)

NvmrcContents ==
    {<<"2", "0">>, <<"2", "0", "LF">>, <<"2", "2">>,
     <<"2", "0", ".", "1", ".", "5">>}

EnvInit ==
    /\ script \in {"test-build", "setup"}
    /\ argv = <<>>
    /\ hostPlatform \in (IF script = "test-build"
                          THEN {"darwin", "linux", "win32", "freebsd"}
                          ELSE {"darwin"})
    /\ hostArch = "arm64"
    /\ isVerbose = Includes(argv, "--verbose")
    /\ skipSync = Includes(argv, "--skip-sync")
    /\ targetPlatform = getPlatformArg(argv, hostPlatform)
    /\ targetArch = getArchArg(argv, hostArch)
    \* the working directory and the PATH
    /\ files \in (IF script = "test-build"
                   THEN SUBSET {"package.json", "product.json", "tsconfig.json",
                                "gulpfile.js", "node_modules", ".nvmrc"}
                   ELSE SUBSET {".git", "package.json", "product.json", ".nvmrc"})
    /\ nvmrc \in (IF ".nvmrc" \in files THEN NvmrcContents ELSE {<<>>})
    /\ tools \in (IF script = "setup" THEN SUBSET {"git", "node", "npm"} ELSE {{}})
    /\ remotes \in (IF script = "setup" THEN {{"origin"}, {"origin", "upstream"}}
                     ELSE {{}})
    /\ productJson = NoProduct
    /\ packageJson = NoPackage
    /\ readme = {}
    /\ buildDirs = {}
    /\ archives = {}
    /\ head = "main"
    /\ pc = "run"
    /\ todo = <<>>
    /\ results = <<>>
    /\ cmds = <<>>
    /\ log = <<>>
    /\ exitCode = 0
    /\ archiveRead = {}
    /\ passed = 0
    /\ total = 0
    /\ allChecks = TRUE

EnvNext ==
    \/ env_main
    \/ env_checkNodeVersion
    \/ env_checkFile
    \/ env_runCommand
    \/ env_summary
    \/ setup_prerequisites
    \/ setup_nodeVersion
    \/ setup_remotes
    \/ setup_fetch
    \/ setup_install
    \/ setup_nonFatal
    \/ setup_vscode
    \/ setup_done

EnvSpec == EnvInit /\ [][EnvNext]_vars

----------------------------------------------------------------------------
(* Vocabulary of the properties *)

\* the run is the `all` command of src/unnamed/part_000
IsAll == script = "part_000" /\ Len(argv) >= 1 /\ argv[1] = "all"

Exited == pc = "exited"

\* A step failed: it threw, it logged an error, or it returned false
StepFailed(r) == r.threw \/ r.errorLogged \/ r.ret = "false"

NoStepFailed == \A i \in 1..Len(results) : ~StepFailed(results[i])

\* the order the specification fixes for the pipeline
PipelineOrder == <<"sync", "install", "build", "package", "archive", "validate">>

\* C1: in an `all` run a failed step is the last step started, and the run
\* that ends after it ends with exit code 1.
C1_FailedStepEndsRun ==
    IsAll =>
        \A i \in 1..Len(results) :
            StepFailed(results[i]) =>
                /\ i = Len(results)
                /\ Exited => exitCode = 1

\* C2: a run of src/unnamed/part_000 ends with exit code 0 exactly when no
\* step it executed failed, and with 1 otherwise.
C2_ExitCodeTellsFailure ==
    (script = "part_000" /\ Exited) =>
        /\ exitCode = 0 <=> NoStepFailed
        /\ exitCode = 1 <=> ~NoStepFailed

\* C3: the steps of an `all` run are a prefix of sync, install, build,
\* package, archive, validate (so none starts twice or before its
\* predecessor), a run that ended without a failure ran all six, and six
\* successes end the run with exit code 0.
C3_FixedOrder ==
    IsAll =>
        /\ Len(results) <= Len(PipelineOrder)
        /\ \A i \in 1..Len(results) : results[i].name = PipelineOrder[i]
        /\ (Exited /\ NoStepFailed) => (Len(results) = 6 /\ exitCode = 0)
        /\ (Len(results) = 6 /\ NoStepFailed) => (pc = "steps" \/ exitCode = 0)

\* C3 witness: an `all` run that ended after six successful steps
C3_Witness ==
    /\ IsAll /\ Exited /\ exitCode = 0
    /\ Len(results) = 6 /\ NoStepFailed
    /\ cmds # <<>>

\* a command of syncWithUpstream: git fetch, branch, checkout or merge
IsSyncCommand(c) ==
    c[1] = "git" /\ c[2] \in {"fetch", "branch", "checkout", "merge"}

\* the run awaits syncWithUpstream and installDependencies one after the other
RunsPipeline == IsAll \/ script = "build-cursorclone.js"

\* C4: with --skip-sync no command of syncWithUpstream is ever executed, and
\* the first external command of a pipeline run is `npm install`.
C4_SkipSyncRunsNoCommand ==
    skipSync =>
        /\ \A i \in 1..Len(cmds) : ~IsSyncCommand(cmds[i].cmd)
        /\ (RunsPipeline /\ cmds # <<>>) => cmds[1].cmd = <<"npm", "install">>

\* C4 witness: an `all` run with --skip-sync that called syncWithUpstream and
\* went on to execute a command
C4_Witness ==
    /\ skipSync /\ IsAll
    /\ Len(results) >= 2 /\ results[1].name = "sync"
    /\ cmds # <<>>

\* the command selects a step of the pipeline (not the help text)
RunsSteps ==
    \/ script = "part_000" /\ Len(argv) >= 1 /\ argv[1] \in Commands \ {"help"}
    \/ script = "build-cursorclone.js" /\ ~Includes(argv, "--help")

\* C5: a run for a target outside PLATFORMS executes no external command and
\* ends with exit code 1; a run for a target inside PLATFORMS never reports
\* an unsupported combination.
C5_UnsupportedTargetRejected ==
    /\ (RunsSteps /\ ~Supported(targetPlatform, targetArch)) =>
            /\ cmds = <<>>
            /\ Exited => exitCode = 1
    /\ Supported(targetPlatform, targetArch) =>
            \A k \in 1..Len(log) :
                log[k].msg # "Unsupported platform/arch combination"

\* C6: for a supported target the directory createArchive looks for is the
\* directory the package step of that target writes.
C6_ArchiveReadsPackageOutput ==
    Supported(targetPlatform, targetArch) =>
        \A d \in archiveRead : d = PackageOutputDir(targetPlatform, targetArch)

\* C8 as stated: no call of execCommand throws to its caller.
C8_ExecNeverThrows ==
    \A i \in 1..Len(cmds) : ~cmds[i].threw

\* C8 amended: a call of execCommand returns normally exactly when the
\* command exits with 0 (with the captured output, or null under --verbose);
\* on any other exit it logs an error line and throws to its caller.
C8_ExecReturnsOrRethrows ==
    \A i \in 1..Len(cmds) :
        LET e == cmds[i]
        IN  /\ e.ok => (~e.threw /\ ~HasError(e.lines) /\ e.ret # "none"
                        /\ (e.ret = "null" <=> isVerbose))
            /\ ~e.ok => (e.threw /\ HasError(e.lines) /\ e.ret = "none")

\* C8 witness: a run in which one command succeeded and a later one failed
C8_Witness ==
    /\ Len(cmds) >= 2
    /\ cmds[1].ok /\ cmds[1].ret = "output"
    /\ ~cmds[Len(cmds)].ok /\ cmds[Len(cmds)].threw

IsGitTag(c) == c[1] = "git" /\ c[2] = "tag"

\* C9 as stated: a command that exits non-zero is the last command executed,
\* an error is logged and the run ends with exit code 1.
C9_FailedCommandIsLast ==
    \A i \in 1..Len(cmds) :
        ~cmds[i].ok =>
            /\ i = Len(cmds)
            /\ HasError(log)
            /\ Exited /\ exitCode = 1

\* C9 amended: every command but `git tag` of createRelease that exits
\* non-zero is the last command executed, an error is logged and the run
\* ends with exit code 1; after a failing `git tag` a warning is logged,
\* `git push origin main --tags` is the next and last command, and the run
\* ends with exit code 1 exactly when that push fails.
C9_FailedCommandIsLastButTag ==
    \A i \in 1..Len(cmds) :
        ~cmds[i].ok =>
            IF IsGitTag(cmds[i].cmd)
            THEN /\ Len(cmds) = i + 1
                 /\ cmds[i + 1].cmd = <<"git", "push", "origin", "main", "--tags">>
                 /\ \E k \in 1..Len(log) : log[k].level = "warn"
                 /\ Exited => (exitCode = 1 <=> ~cmds[i + 1].ok)
            ELSE /\ i = Len(cmds)
                 /\ HasError(log)
                 /\ Exited /\ exitCode = 1

\* C9 witness: `git tag` failed, `git push` ran after it and failed too
C9_Witness ==
    /\ Len(cmds) >= 2
    /\ IsGitTag(cmds[Len(cmds) - 1].cmd) /\ ~cmds[Len(cmds) - 1].ok
    /\ ~cmds[Len(cmds)].ok
    /\ Exited /\ exitCode = 1

\* createArchive did not find its source directory
ArchiveFoundNothing ==
    \E i \in 1..Len(results) :
        /\ results[i].name = "archive"
        /\ results[i].errorLogged /\ ~results[i].threw

IsArchiver(c) == c[1] \in {"tar", "zip"}

\* C10: when createArchive does not find the build-output directory, no tar
\* or zip is executed, no releases directory and no archive is created, an
\* error is logged and the run ends with exit code 1.
C10_MissingBuildDirFailsRun ==
    ArchiveFoundNothing =>
        /\ \A i \in 1..Len(cmds) : ~IsArchiver(cmds[i].cmd)
        /\ "releases" \notin files
        /\ archives = {}
        /\ HasError(log)
        /\ Exited => exitCode = 1

\* a command of createRelease: git tag or git push
IsReleaseCommand(c) == c[1] = "git" /\ c[2] \in {"tag", "push"}

\* the steps run() of build-cursorclone.js awaits before createRelease
BeforeRelease == <<"validate", "sync", "install", "build", "package">>

\* C11: a git tag or git push is executed only in a run that was given
\* --release, only after validate, sync, install, build and package have all
\* been executed in that order and none of them failed, and only after
\* commands that exited with 0 (a failing git tag aside, which createRelease
\* itself executes); so after a failed step nothing is tagged or pushed.
C11_ReleaseOnlyAfterSuccess ==
    \A i \in 1..Len(cmds) :
        IsReleaseCommand(cmds[i].cmd) =>
            /\ script = "build-cursorclone.js"
            /\ Includes(argv, "--release")
            /\ Len(results) = Len(BeforeRelease) + 1
            /\ \A k \in 1..Len(BeforeRelease) :
                    /\ results[k].name = BeforeRelease[k]
                    /\ ~StepFailed(results[k])
                    /\ ~results[k].cmdFailed
            /\ results[Len(results)].name = "release"
            /\ \A j \in 1..(i - 1) : cmds[j].ok \/ IsGitTag(cmds[j].cmd)

\* C11 witness: a run with --release that tagged and pushed after the five
\* steps before it had executed commands
C11_Witness ==
    /\ Includes(argv, "--release") /\ ~skipSync
    /\ Len(cmds) >= 2
    /\ IsGitTag(cmds[Len(cmds) - 1].cmd) /\ cmds[Len(cmds) - 1].ok
    /\ cmds[Len(cmds)].cmd[2] = "push" /\ cmds[Len(cmds)].ok
    /\ Exited /\ exitCode = 0

\* product.json is there and parses, and a branded field has another value
BrandingMismatch ==
    /\ "product.json" \in files
    /\ productJson.parses
    /\ \/ productJson.nameShort # "CursorClone"
       \/ productJson.applicationName # "cursorclone"

\* the steps of a pipeline run other than validate (and release)
OtherSteps ==
    IF script = "part_000" THEN <<"sync", "install", "build", "package", "archive">>
    ELSE <<"sync", "install", "build", "package">>

Executed(name) == \E i \in 1..Len(results) : results[i].name = name

\* the run ended in the catch of run() after a step other than validate threw
EndedByOtherStep ==
    /\ results # <<>>
    /\ results[Len(results)].name # "validate"
    /\ results[Len(results)].threw

\* a run that ended executed every step but validate, unless one of them threw
MismatchHaltsNothing ==
    Exited =>
        \/ \A k \in 1..Len(OtherSteps) : Executed(OtherSteps[k])
        \/ EndedByOtherStep

\* no step removes a file, a build directory or an archive
ArtifactsKept ==
    /\ files \subseteq files'
    /\ buildDirs \subseteq buildDirs'
    /\ archives \subseteq archives'

IsOption(a) == a \in {"--platform", "--arch", "--skip-sync", "--verbose"}

\* part_000 was started without a positional command
NoPositionalCommand ==
    /\ script = "part_000"
    /\ argv = <<>> \/ IsOption(argv[1])

\* C14: started without a positional command (also when the first argument
\* is an option), part_000 calls showHelp and nothing else: no step, no
\* external command, no log line, and the exit code stays 0.
C14_NoCommandShowsHelp ==
    NoPositionalCommand =>
        /\ cmds = <<>>
        /\ log = <<>>
        /\ exitCode = 0
        /\ Len(results) <= 1
        /\ \A i \in 1..Len(results) : results[i].name = "help"
        /\ Exited => Len(results) = 1

\* C14 witness: `--verbose` as the only argument, the run ended after the help
C14_Witness ==
    /\ script = "part_000" /\ argv = <<"--verbose">>
    /\ Exited /\ Len(results) = 1 /\ results[1].name = "help"

\* the arguments that follow the first occurrence of flag (none or one)
Following(flag) ==
    { argv[i + 1] : i \in { j \in 1..(Len(argv) - 1) :
                              argv[j] = flag /\ \A k \in 1..(j - 1) : argv[k] # flag } }

\* C15: in every state of a run the target platform is the argument that
\* follows --platform, or the host platform when --platform is absent or is
\* the last argument; the target architecture is the argument that follows
\* --arch, or else arm64 on an arm64 host and x64 on any other host.  As argv
\* and the host never change, no step changes the target.
C15_TargetFromArgsOrHost ==
    /\ \A v \in Following("--platform") : targetPlatform = v
    /\ Following("--platform") = {} => targetPlatform = hostPlatform
    /\ \A v \in Following("--arch") : targetArch = v
    /\ (Following("--arch") = {} /\ hostArch = "arm64") => targetArch = "arm64"
    /\ (Following("--arch") = {} /\ hostArch # "arm64") => targetArch = "x64"

\* C15 witness: a package run that ended, with --platform given a value and
\* --arch the last argument on a host that is not arm64
C15_Witness ==
    /\ Exited /\ cmds # <<>>
    /\ Following("--platform") = {"linux"} /\ targetPlatform = "linux"
    /\ argv[Len(argv)] = "--arch" /\ Following("--arch") = {}
    /\ hostArch = "ia32" /\ targetArch = "x64"

\* the lines with which the methods of the build managers report success
SuccessMessages ==
    {"Successfully synced with upstream", "Dependencies installed",
     "CursorClone build completed", "CursorClone compiled successfully",
     "Application packaged successfully", "Successfully packaged",
     "Archive created", "All tests passed", "Build validation passed",
     "Release created and pushed"}

SuccessCount(lines) ==
    Cardinality({ k \in 1..Len(lines) :
                    lines[k].level = "info" /\ lines[k].msg \in SuccessMessages })

ErrorCount(lines) ==
    Cardinality({ k \in 1..Len(lines) : lines[k].level = "error" })

\* what a step wrote, the lines of run()'s catch included
StepLines(r) == r.lines \o r.caught

\* a step that emits an outcome: not the help text, not a skipped sync
ReportsOutcome(r) == r.name # "help" /\ ~(r.name = "sync" /\ skipSync)

\* C16 as stated: every executed step emits exactly one success-or-failure
\* line, never both and never more than one failure line.
C16_OneOutcomeLine ==
    \A i \in 1..Len(results) :
        LET r == results[i]
        IN  ReportsOutcome(r) =>
                SuccessCount(StepLines(r)) + ErrorCount(StepLines(r)) = 1

\* C16 amended: a step of part_000 emits either exactly one success line and
\* no error line, or no success line and one error line for each place that
\* handles its failure: execCommand's 'Command failed' when a command
\* failed, syncWithUpstream's 'Failed to sync' when sync threw, run()'s
\* 'Build failed' when the step threw, and the step's own error line when
\* it failed without throwing.
C16_OneSuccessOrErrorPerHandler ==
    script = "part_000" =>
        \A i \in 1..Len(results) :
            LET r == results[i]
                success == SuccessCount(StepLines(r))
                errors == ErrorCount(StepLines(r))
            IN  ReportsOutcome(r) =>
                    /\ success = 1 <=> errors = 0
                    /\ success = 0 <=> errors > 0
                    /\ errors = (IF r.cmdFailed THEN 1 ELSE 0)
                                + (IF r.name = "sync" /\ r.threw THEN 1 ELSE 0)
                                + (IF r.threw THEN 1 ELSE 0)
                                + (IF ~r.threw /\ r.ret = "false" THEN 1 ELSE 0)
                                + (IF ~r.threw /\ r.ret # "false" /\ r.errorLogged
                                   THEN 1 ELSE 0)
                    /\ r.cmdFailed => r.threw

\* C16 witness: a sync step whose command failed wrote three error lines
\* and no success line, and the run ended with exit code 1
C16_Witness ==
    /\ script = "part_000" /\ Exited /\ exitCode = 1
    /\ \E i \in 1..Len(results) :
            /\ results[i].name = "sync" /\ results[i].cmdFailed
            /\ ErrorCount(StepLines(results[i])) = 3
            /\ SuccessCount(StepLines(results[i])) = 0
    /\ ~skipSync

\* the commands of syncWithUpstream executed so far
SyncCommandCount ==
    Cardinality({ j \in 1..Len(cmds) : IsSyncCommand(cmds[j].cmd) })

\* C17: with --verbose as without it, a run executes the same commands and
\* ends with the same exit code for the same command outcomes.  Without
\* --verbose a sync whose commands all exit with 0 executes git fetch,
\* git branch, git checkout -b, git checkout and git merge and returns, and
\* the exit code is still 0 when it has returned; so the same holds of
\* every run.
C17_VerboseKeepsCommands ==
    \A i \in 1..Len(results) :
        (results[i].name = "sync" /\ ~skipSync /\ ~results[i].cmdFailed) =>
            /\ ~results[i].threw
            /\ SyncCommandCount = 5
            /\ i = Len(results) => exitCode = 0

\* what C17 says of a sync without --verbose
QuietSyncKeepsCommands == ~isVerbose => C17_VerboseKeepsCommands

IsMerge(c) == c[1] = "git" /\ c[2] = "merge"

IsBackup(c) == c = <<"git", "checkout", "-b", "backup-TS">>

\* C18: git merge is executed only after `git checkout -b backup-...` has
\* succeeded, and the branch checked out when it is executed is not the
\* backup branch, whatever was checked out when the sync started.
C18_MergeNotOnBackup ==
    \A i \in 1..Len(cmds) :
        IsMerge(cmds[i].cmd) =>
            /\ \E j \in 1..(i - 1) : IsBackup(cmds[j].cmd) /\ cmds[j].ok
            /\ head # "backup-TS"

\* the literals a branded product.json holds
BrandLiterals ==
    [nameShort |-> "CursorClone", applicationName |-> "cursorclone",
     dataFolderName |-> ".cursorclone",
     serverDataFolderName |-> ".cursorclone-server"]

\* the fields of product.json a validate step compares
ComparedFields(name) ==
    IF name = "validateProductJson" THEN DOMAIN BrandLiterals
    ELSE {"applicationName"}

\* the step reached its comparison of product.json
ComparesProduct(r) ==
    /\ "product.json" \in files /\ productJson.parses
    /\ \/ r.name = "validateProductJson"
       \/ r.name = "validate" /\ script = "part_000" /\ FirstMissing = 0

\* the error lines of a step that name a field
FieldErrors(lines) ==
    { k \in 1..Len(lines) : lines[k].level = "error" /\ "key" \in DOMAIN lines[k] }

\* the step's error lines name exactly the fields of product.json that differ
\* from their literal, each with the literal and the value found, and the
\* step fails exactly when a field differs
NamesProductMismatches(r) ==
    LET differing == { f \in ComparedFields(r.name) : productJson[f] # BrandLiterals[f] }
    IN  /\ { r.lines[k].key : k \in FieldErrors(r.lines) } = differing
        /\ \A k \in FieldErrors(r.lines) :
                /\ r.lines[k].expected = BrandLiterals[r.lines[k].key]
                /\ r.lines[k].got = productJson[r.lines[k].key]
        /\ Cardinality(FieldErrors(r.lines)) = Cardinality(differing)
        /\ r.ret = "false" <=> differing # {}

\* C13 as stated: a validate step that compares product.json reports exactly
\* the mismatched fields, each with its expected and its actual value, and
\* reports no matching field as an error; this for validateProductJson of
\* the branding validator and for validateBuild of part_000.
C13_ValidateNamesMismatches ==
    \A i \in 1..Len(results) :
        ComparesProduct(results[i]) => NamesProductMismatches(results[i])

\* the fields of package.json that differ from their literal
PackageDiffering ==
    { f \in {"name", "author"} :
        \/ f = "name" /\ packageJson.name # "cursorclone"
        \/ f = "author" /\ packageJson.author # [kind |-> "string", text |-> "CursorClone Team"] }

\* C13 amended: validateProductJson and validatePackageJson of the branding
\* validator report exactly the mismatched fields, each in one error line
\* with its expected and its actual value, and fail exactly when a field
\* differs; validateBuild of part_000 reports a differing applicationName
\* with one error line that names no field and no value, and returns false.
C13_ValidatorNamesMismatches ==
    \A i \in 1..Len(results) :
        LET r == results[i]
        IN  /\ (ComparesProduct(r) /\ r.name = "validateProductJson") =>
                    NamesProductMismatches(r)
            /\ (r.name = "validatePackageJson" /\ "package.json" \in files
                    /\ packageJson.parses) =>
                    /\ { r.lines[k].key : k \in FieldErrors(r.lines) } = PackageDiffering
                    /\ \A k \in FieldErrors(r.lines) :
                            /\ r.lines[k].expected = packageExpected[r.lines[k].key]
                            /\ r.lines[k].key = "name" => r.lines[k].got = packageJson.name
                    /\ Cardinality(FieldErrors(r.lines)) = Cardinality(PackageDiffering)
                    /\ r.ret = "false" <=> PackageDiffering # {}
            /\ (ComparesProduct(r) /\ r.name = "validate") =>
                    /\ FieldErrors(r.lines) = {}
                    /\ ErrorCount(r.lines) = 1 <=> productJson.applicationName # "cursorclone"
                    /\ ErrorCount(r.lines) = 0 <=> productJson.applicationName = "cursorclone"
                    /\ r.ret = "false" <=> productJson.applicationName # "cursorclone"

\* C13 witness: validateProductJson found applicationName and dataFolderName
\* differing and the other two fields matching, and wrote two such lines
C13_Witness ==
    /\ script = "validate-branding" /\ Exited
    /\ productJson.parses
    /\ productJson.nameShort = "CursorClone"
    /\ productJson.applicationName = "code-oss"
    /\ productJson.dataFolderName = "undefined"
    /\ productJson.serverDataFolderName = ".cursorclone-server"
    /\ results[1].name = "validateProductJson" /\ results[1].ret = "false"
    /\ Cardinality(FieldErrors(results[1].lines)) = 2

\* the file a validation reads
ValidatedFile(name) ==
    IF name = "validateProductJson" THEN "product.json"
    ELSE IF name = "validatePackageJson" THEN "package.json"
    ELSE "README.md"

\* the file a validation reads is missing or cannot be parsed
Unusable(name) ==
    \/ ValidatedFile(name) \notin files
    \/ name = "validateProductJson" /\ ~productJson.parses
    \/ name = "validatePackageJson" /\ ~packageJson.parses

\* C19: the branding validator calls validateProductJson, validatePackageJson
\* and validateReadme in this order whatever the earlier ones returned, and
\* has called all three when it exits; none of them throws, and one whose
\* file is missing or unparsable returns false; the exit code is 0 when all
\* three returned true and 1 otherwise.
C19_AllValidationsRun ==
    script = "validate-branding" =>
        /\ Len(results) <= 3
        /\ \A i \in 1..Len(results) :
                /\ results[i].name =
                        <<"validateProductJson", "validatePackageJson", "validateReadme">>[i]
                /\ ~results[i].threw
                /\ results[i].ret \in {"true", "false"}
                /\ Unusable(results[i].name) => results[i].ret = "false"
        /\ Exited =>
                /\ Len(results) = 3
                /\ exitCode = 0 <=> \A i \in 1..3 : results[i].ret = "true"
                /\ exitCode = 1 <=> \E i \in 1..3 : results[i].ret = "false"
        /\ ~Exited => exitCode = 0

\* C19 witness: product.json is missing, the two later validations ran and
\* returned true, and the validator exited with 1
C19_Witness ==
    /\ script = "validate-branding" /\ Exited /\ exitCode = 1
    /\ "product.json" \notin files
    /\ Len(results) = 3
    /\ results[1].ret = "false" /\ results[2].ret = "true" /\ results[3].ret = "true"

\* C20: validatePackageJson of the branding validator and the package.json
\* check of the build-environment test accept the same package.json files:
\* whenever one of them has run, what it returned is what the other returns
\* for the same file.
C20_PackageChecksAgree ==
    \A i \in 1..Len(results) :
        /\ results[i].name = "validatePackageJson" =>
                (results[i].ret = "true" <=> PackageBranded.ok)
        /\ results[i].name = "packageContent" =>
                (results[i].ret = "true" <=> ValidatePackage.ret = "true")

\* the checks of the build-environment test that were passed so far
PassedChecks == { i \in 1..Len(results) : results[i].ret = "true" }

\* C21: in the build-environment test total counts the checks made and
\* passed counts the checks passed, so 0 <= passed <= total; a run that
\* ended has made nine checks, and its exit code is 0 exactly when passed
\* equals total, also when reading product.json or package.json throws.
C21_CountersTellOutcome ==
    script = "test-environment" =>
        /\ total = Len(results)
        /\ passed = Cardinality(PassedChecks)
        /\ 0 <= passed /\ passed <= total /\ total <= 9
        /\ Exited =>
                /\ total = 9
                /\ exitCode = 0 <=> passed = total
                /\ exitCode = 1 <=> passed # total
        /\ ~Exited => exitCode = 0

\* C21 witness: product.json does not parse and package.json is missing, so
\* both reads throw; the other checks passed and the run ended with 1
C21_Witness ==
    /\ script = "test-environment" /\ Exited /\ exitCode = 1
    /\ "product.json" \in files /\ ~productJson.parses
    /\ "package.json" \notin files
    /\ total = 9 /\ passed = 6

\* the checks whose failure the environment validation reports with exit 1
RequiredChecks ==
    {"nodeVersion", "package.json", "product.json", "tsconfig.json",
     "gulpfile.js", "git", "gitRemotes", "npm", "node_modules"}

\* the checks whose result is not used
OptionalChecks == {"python3", "xcode-select", "gcc", "make", "cl"}

Failed(name) ==
    \E i \in 1..Len(results) : results[i].name = name /\ results[i].ret = "false"

\* C22: the environment validation makes its checks in one fixed order
\* whatever the earlier ones returned, has made the nine required checks
\* and the optional ones of its platform when it exits, and exits with 1
\* exactly when a required check failed; a failed optional check leaves the
\* exit code alone.
C22_RequiredChecksDecideExit ==
    script = "test-build" =>
        /\ Len(results) <= Len(env_Checks(hostPlatform))
        /\ \A i \in 1..Len(results) : results[i].name = env_Checks(hostPlatform)[i]
        /\ Exited =>
                /\ \A c \in RequiredChecks \cup {"python3"} : Executed(c)
                /\ Len(results) = 10 + Len(PlatformTools(hostPlatform))
                /\ exitCode = 1 <=> \E c \in RequiredChecks : Failed(c)
                /\ exitCode = 0 <=> \A c \in RequiredChecks : ~Failed(c)
        /\ ~Exited => exitCode = 0

\* C22 witness: on linux the first check (Node version) and an optional one
\* (gcc) failed, every other check was made and passed, and the exit code
\* is 1
C22_Witness ==
    /\ script = "test-build" /\ hostPlatform = "linux"
    /\ Exited /\ exitCode = 1
    /\ Failed("nodeVersion") /\ Failed("gcc")
    /\ \A c \in (RequiredChecks \cup OptionalChecks) \ {"nodeVersion", "gcc"} : ~Failed(c)
    /\ Len(results) = 12

\* a run in which only optional checks failed ended with exit code 0
OptionalFailuresIgnored ==
    /\ script = "test-build" /\ Exited /\ exitCode = 0
    /\ Failed("python3") /\ Failed("xcode-select")

\* a prerequisite of the setup script is not met
PrerequisiteUnmet ==
    \/ {"git", "node", "npm"} \ tools # {}
    \/ ".git" \notin files
    \/ {"product.json", "package.json"} \ files # {}

\* a step of the setup script changes nothing outside its output
ChangesNothing ==
    /\ remotes' = remotes
    /\ files' = files
    /\ cmds' = cmds

\* C23: with git, node or npm not installed, without a .git directory, or
\* without product.json or package.json, the setup script executes no
\* command, begins no section, adds no remote and writes no file, and when
\* it has exited its exit code is 1.
C23_UnmetPrerequisiteChangesNothing ==
    /\ []((script = "setup" /\ PrerequisiteUnmet) =>
            /\ cmds = <<>>
            /\ results = <<>>
            /\ pc # "steps"
            /\ files \cap VscodeFiles = {}
            /\ Exited => exitCode = 1)
    /\ [][(script = "setup" /\ PrerequisiteUnmet) => ChangesNothing]_vars

\* C23 witness: git and node are installed and npm is not; the script has
\* printed its error and exited with 1
C23_Witness ==
    /\ script = "setup" /\ tools = {"git", "node"}
    /\ {".git", "product.json", "package.json"} \subseteq files
    /\ Exited /\ exitCode = 1
    /\ Len(log) = 1 /\ log[1].msg = "Error: npm is not installed"
    /\ cmds = <<>>

CommandFailed(c) == \E i \in 1..Len(cmds) : cmds[i].cmd = c /\ ~cmds[i].ok

CommandRan(c) == \E i \in 1..Len(cmds) : cmds[i].cmd = c

\* npm install and npm install --ignore-scripts have both failed
BothInstallsFailed ==
    /\ CommandFailed(<<"npm", "install">>)
    /\ CommandFailed(<<"npm", "install", "--ignore-scripts">>)

\* the sections whose failure is a warning
WarningOnly == {"extensions", "compile", "branding"}

\* C24: the setup script's dependency installation fails exactly when npm
\* install and the fallback npm install --ignore-scripts have both failed,
\* and then the script exits with 1 without a later command or a .vscode
\* file; the fallback runs only after npm install failed.  A failing
\* download of the extensions, compilation or branding validation prints a
\* warning and the script goes on: once installation succeeded, a script
\* that has exited has run all three, written .vscode/launch.json,
\* tasks.json and settings.json, and exited with 0.
C24_OnlyInstallAborts ==
    script = "setup" =>
        /\ Executed("install") => (Failed("install") <=> BothInstallsFailed)
        /\ CommandRan(<<"npm", "install", "--ignore-scripts">>) =>
                CommandFailed(<<"npm", "install">>)
        /\ BothInstallsFailed =>
                /\ Exited /\ exitCode = 1
                /\ cmds[Len(cmds)].cmd = <<"npm", "install", "--ignore-scripts">>
                /\ results[Len(results)].name = "install"
                /\ files \cap VscodeFiles = {}
        /\ \A i \in 1..Len(results) :
                (results[i].name \in WarningOnly /\ results[i].cmdFailed) =>
                    /\ results[i].ret = "true"
                    /\ \E k \in 1..Len(results[i].lines) :
                            results[i].lines[k].level = "warn"
                    /\ i = Len(results) => ~Exited
        /\ (Executed("install") /\ ~BothInstallsFailed /\ Exited) =>
                /\ exitCode = 0
                /\ \A n \in WarningOnly : Executed(n)
                /\ VscodeFiles \subseteq files

\* C24 witness: npm install failed and the fallback succeeded; the download,
\* the compilation and the branding validation all failed; the three files
\* were written and the script exited with 0
C24_Witness ==
    /\ script = "setup" /\ Exited /\ exitCode = 0
    /\ CommandFailed(<<"npm", "install">>)
    /\ CommandRan(<<"npm", "install", "--ignore-scripts">>)
    /\ ~CommandFailed(<<"npm", "install", "--ignore-scripts">>)
    /\ \A n \in WarningOnly : CommandFailed(NonFatalCommand(n))
    /\ VscodeFiles \subseteq files

====
